---- MODULE Spec2Model ----
(***************************************************************************)
(* A model of the yy-boss synchronisation engine: the folder hierarchy     *)
(* (PathGraph), the global name index (ResourceNames), the typed resource  *)
(* stores (YyResourceHandler<T>) with their deferred write-back queues,    *)
(* and the on-disk representation that serialize() writes to.              *)
(***************************************************************************)
EXTENDS Integers, Sequences, FiniteSets, TLC

\* ------------------------------------------------------------------ bounds
MaxFolders == 2    \* folders below the root
MaxVer == 2        \* distinct definition contents / payload contents
MaxQueue == 2      \* length cap of every pending queue (resource commands)
MaxVfsQueue == 1   \* length cap of every pending queue (folder graph commands)
MaxFiles == 3      \* length cap of the Files list taken by itself

\* The resource names in play: the resource commands follow one resource,
\* the commands on the folder graph two.
Names == {"spr_player"}
VfsNames == {"spr_player", "obj_slime"}

FolderNames == {"Enemies", "Sub"}

\* Option<T>: None is the empty sequence, Some(x) a one-element sequence.
None == <<>>
Some(x) == <<x>>

\* --------------------------------------------------------------- resources
\* The resource kinds a command can manipulate (the model keeps two).
Resource == {"Sprite", "Script"}

subpath_name(T) == IF T = "Sprite" THEN "sprites" ELSE "scripts"

\* The root of the virtual file system, and the folders that exist.
root_path == <<>>

\* A resource definition: its name, the view path of its parent folder, and
\* the rest of its schema fields (v).
YyDef(n, p, v) == [name |-> n, parent |-> p, v |-> v]

\* FilesystemPath::new(SUBPATH_NAME, name): the name and the path of the
\* definition file <subpath>/<name>/<name>.yy
FilesystemPath_new(T, n) == [name |-> n, path |-> <<subpath_name(T), n, "yy">>]

\* The directory that holds the definition file.
relative_yy_directory(T, n) == <<subpath_name(T), n>>

\* ----------------------------------------------------------------- prefix
IsPrefix(p, q) == Len(p) <= Len(q) /\ SubSeq(q, 1, Len(p)) = p

\* Sequence membership and removal of the first match.
SeqToSet(s) == {s[i] : i \in 1..Len(s)}

Vers == 1..MaxVer

\* ------------------------------------------------------------------- disk
\* The disk is a function from a path (a sequence of segments below the
\* project root) to what is stored there.
DirEntry == [kind |-> "dir"]
YyEntry(yy) == [kind |-> "yy", yy |-> yy]
AssocEntry(data) == [kind |-> "assoc", data |-> data]

FrameUniverse == <<"frame_a", "frame_b", "frame_c", "frame_d">>

\* The file that holds the payload of a definition, relative to the
\* directory of the definition file: a sprite names its frame images after
\* ids found in the definition, a script has one gml file.
assoc_file(T, yy) == IF T = "Sprite" THEN <<FrameUniverse[yy.v]>> ELSE <<"gml">>

Without(f, keys) == [k \in (DOMAIN f) \ keys |-> f[k]]

\* fs::remove_dir_all(path)
remove_dir_all(d, path) ==
    IF path \in DOMAIN d /\ d[path].kind = "dir"
    THEN [ok |-> TRUE, disk |-> Without(d, {q \in DOMAIN d : IsPrefix(path, q)})]
    ELSE [ok |-> FALSE, disk |-> d]

\* fs::remove_file(path)
remove_file(d, path) ==
    IF path \in DOMAIN d /\ d[path].kind # "dir"
    THEN [ok |-> TRUE, disk |-> Without(d, {path})]
    ELSE [ok |-> FALSE, disk |-> d]

\* fs::create_dir_all(path)
create_dir_all(d, path) == (path :> DirEntry) @@ d

\* YyResource::serialize_associated_data(directory_path, data): a sprite
\* writes its frame image and its layers folder, a script its gml file.
serialize_associated_data(T, yy, dir, data, d) ==
    IF T = "Sprite"
    THEN (dir \o assoc_file(T, yy) :> AssocEntry(data))
         @@ (dir \o <<"layers">> :> DirEntry) @@ d
    ELSE (dir \o assoc_file(T, yy) :> AssocEntry(data)) @@ d

\* YyResource::deserialize_associated_data(Path(path)): reads the payload
\* back; fails when the backing file is missing.
deserialize_associated_data(T, yy, dir, d) ==
    LET f == dir \o assoc_file(T, yy) IN
    IF f \in DOMAIN d /\ d[f].kind = "assoc"
    THEN [ok |-> TRUE, data |-> d[f].data]
    ELSE [ok |-> FALSE, data |-> 0]

\* utils::serialize_json(yy_path, yy_resource)
serialize_json(d, yy_path, yy) == (yy_path :> YyEntry(yy)) @@ d

\* YyResource::cleanup_on_replace(files_to_delete, folders_to_delete): the
\* paths, relative to the directory of the yy file, that a replacement of
\* this definition leaves stale.
cleanup_on_replace(T, yy) ==
    IF T = "Sprite"
    THEN [files |-> <<assoc_file(T, yy)>>, folders |-> << <<"layers">> >>]
    ELSE [files |-> <<>>, folders |-> <<>>]

\* ------------------------------------------------------------------ Files
\* Files(Vec<FilesystemPath>): the file leaves of one folder, in order.
Files_contains_name(files, name) == \E i \in 1..Len(files) : files[i].name = name

Files_attach(files, fsyspath) == Append(files, fsyspath)

Files_position(files, name) ==
    IF Files_contains_name(files, name)
    THEN CHOOSE i \in 1..Len(files) :
            /\ files[i].name = name
            /\ \A j \in 1..(i - 1) : files[j].name # name
    ELSE 0

Files_detach(files, name) ==
    LET p == Files_position(files, name) IN
    IF p = 0 THEN files
    ELSE SubSeq(files, 1, p - 1) \o SubSeq(files, p + 1, Len(files))

Files_is_empty(files) == Len(files) = 0

\* ---------------------------------------------------------- ResourceNames
ResourceDescriptor_new(T, order, parent) ==
    [resource |-> T, order |-> order, parent |-> parent]

\* insert: refuses a name that is already present.
ResourceNames_insert(rn, name, desc) ==
    IF name \in DOMAIN rn THEN rn ELSE (name :> desc) @@ rn

\* load_in_resource: bulk ingestion, no uniqueness check.
ResourceNames_load_in_resource(rn, name, desc) == (name :> desc) @@ rn

ResourceNames_remove(rn, name) == Without(rn, {name})

ResourceNames_contains(rn, name) == name \in DOMAIN rn

\* Files::load_in / Files::add / Files::remove: each returns the new Files
\* and the new ResourceNames.
Files_load_in(files, T, yy, order, rn) ==
    [files |-> Append(files, FilesystemPath_new(T, yy.name)),
     rn |-> ResourceNames_load_in_resource(rn, yy.name,
                ResourceDescriptor_new(T, order, yy.parent))]

Files_add(files, T, yy, order, rn) ==
    [files |-> Files_attach(files, FilesystemPath_new(T, yy.name)),
     rn |-> ResourceNames_insert(rn, yy.name,
                ResourceDescriptor_new(T, order, yy.parent))]

\* (mutant: the leaf is detached but the name stays in the index.)
Files_remove_keeping_name(files, name, rn) ==
    [files |-> Files_detach(files, name), rn |-> rn]

Files_remove(files, name, rn) ==
    [files |-> Files_detach(files, name),
     rn |-> ResourceNames_remove(rn, name)]

\* ------------------------------------------------------ YyResourceHandler
\* YyResourceHandler<T>: the resources, and the four pending queues.
YyResourceHandler_new ==
    [resources |-> <<>>,
     resources_to_reserialize |-> <<>>,
     associated_files_to_cleanup |-> <<>>,
     associated_folders_to_cleanup |-> <<>>,
     resources_to_remove |-> <<>>]

YyResourceData(yy, assoc) == [yy_resource |-> yy, associated_data |-> assoc]

\* insert_resource: HashMap::insert, returning the entry it displaced.
insert_resource(h, value, associated_data) ==
    [self |-> [h EXCEPT !.resources =
                   (value.name :> YyResourceData(value, associated_data)) @@ @],
     ret |-> IF value.name \in DOMAIN h.resources
             THEN Some(h.resources[value.name]) ELSE None]

\* (mutant: set queues the name but keeps a definition that is already
\* there, and hands back nothing.)
set_keeping_old(h, T, value, associated_data) ==
    LET h1 == [h EXCEPT !.resources_to_reserialize = Append(@, value.name)]
    IN IF value.name \in DOMAIN h.resources
       THEN [self |-> h1, ret |-> None]
       ELSE [self |-> insert_resource(h1, value, Some(associated_data)).self,
             ret |-> None]

\* (mutant: set queues the name without inserting the resource.)
set_without_insert(h, T, value, associated_data) ==
    [self |-> [h EXCEPT !.resources_to_reserialize = Append(@, value.name)],
     ret |-> None]

\* set: queue the name for reserialization, insert, and queue the cleanup
\* of a replaced definition.
set(h, T, value, associated_data) ==
    LET h1 == [h EXCEPT !.resources_to_reserialize = Append(@, value.name)]
        ins == insert_resource(h1, value, Some(associated_data))
        h2 == ins.self
        cl == IF ins.ret # None
              THEN cleanup_on_replace(T, ins.ret[1].yy_resource)
              ELSE [files |-> <<>>, folders |-> <<>>]
    IN [self |-> [h2 EXCEPT
                    !.associated_files_to_cleanup = @ \o cl.files,
                    !.associated_folders_to_cleanup = @ \o cl.folders],
        ret |-> ins.ret]

\* (mutant: get loads nothing but forgets the resident payload.)
get_evicting(h, name) ==
    IF name \in DOMAIN h.resources
    THEN [self |-> [h EXCEPT !.resources[name].associated_data = None],
          ret |-> Some(h.resources[name])]
    ELSE [self |-> h, ret |-> None]

\* get(&self): the handler is left as it is.
get(h, name) ==
    [self |-> h,
     ret |-> IF name \in DOMAIN h.resources THEN Some(h.resources[name]) ELSE None]

\* (mutant: a load that fails drops the payload that was resident.)
load_resource_associated_data_dropping(h, T, resource_name, path, d) ==
    IF resource_name \in DOMAIN h.resources
    THEN LET de == deserialize_associated_data(
                       T, h.resources[resource_name].yy_resource, path, d)
         IN IF de.ok
            THEN [self |-> [h EXCEPT !.resources[resource_name].associated_data
                                         = Some(de.data)],
                  ok |-> TRUE, err |-> "", data |-> de.data]
            ELSE [self |-> [h EXCEPT !.resources[resource_name].associated_data
                                         = None],
                  ok |-> FALSE, err |-> "IOFailure", data |-> 0]
    ELSE [self |-> h, ok |-> FALSE, err |-> "ResourceNotFound", data |-> 0]

\* load_resource_associated_data: ok with the loaded payload, or an error
\* (ResourceNotFound, or the error of the deserialization).
load_resource_associated_data(h, T, resource_name, path, d) ==
    IF resource_name \in DOMAIN h.resources
    THEN LET de == deserialize_associated_data(
                       T, h.resources[resource_name].yy_resource, path, d)
         IN IF de.ok
            THEN [self |-> [h EXCEPT !.resources[resource_name].associated_data
                                         = Some(de.data)],
                  ok |-> TRUE, err |-> "", data |-> de.data]
            ELSE [self |-> h, ok |-> FALSE, err |-> "IOFailure", data |-> 0]
    ELSE [self |-> h, ok |-> FALSE, err |-> "ResourceNotFound", data |-> 0]

\* (mutant: remove takes the resource out of the map and queues nothing.)
remove_without_queue(h, T, value, d) ==
    IF value \in DOMAIN h.resources
    THEN [self |-> [h EXCEPT !.resources = Without(@, {value})],
          ret |-> Some(<<h.resources[value].yy_resource,
                         h.resources[value].associated_data>>)]
    ELSE [self |-> h, ret |-> None]

\* (mutant: remove queues the removal before it looks the resource up.)
remove_queueing_first(h, T, value, d) ==
    LET h0 == [h EXCEPT !.resources_to_remove = Append(@, value)] IN
    IF value \in DOMAIN h.resources
    THEN [self |-> [h0 EXCEPT !.resources = Without(@, {value})],
          ret |-> Some(<<h.resources[value].yy_resource,
                         h.resources[value].associated_data>>)]
    ELSE [self |-> h0, ret |-> None]

\* remove: takes the resource out of the map, queues the removal of its
\* directory, and for a payload that is not resident asks
\* load_resource_associated_data for it (on the map the resource has just
\* left).
remove(h, T, value, d) ==
    IF value \in DOMAIN h.resources
    THEN LET old == h.resources[value]
             h1 == [h EXCEPT !.resources = Without(@, {value}),
                             !.resources_to_remove = Append(@, value)]
             out == load_resource_associated_data(
                        h1, T, old.yy_resource.name,
                        relative_yy_directory(T, old.yy_resource.name), d)
         IN IF old.associated_data = None
            THEN [self |-> out.self,
                  ret |-> Some(<<old.yy_resource,
                                 IF out.ok THEN Some(out.data) ELSE None>>)]
            ELSE [self |-> h1,
                  ret |-> Some(<<old.yy_resource, old.associated_data>>)]
    ELSE [self |-> h, ret |-> None]

\* (mutant: a resource loaded at startup is queued to be written again.)
load_on_startup_dirty(h, value) ==
    [insert_resource(h, value, None).self EXCEPT
        !.resources_to_reserialize = Append(@, value.name)]

\* load_on_startup
load_on_startup(h, value) == insert_resource(h, value, None).self

\* serialize, first loop: remove_dir_all of every resource queued for
\* removal; ok is FALSE when one of them failed.
RECURSIVE serialize_remove(_, _, _)
serialize_remove(T, q, d) ==
    IF q = <<>> THEN [ok |-> TRUE, disk |-> d]
    ELSE LET r == remove_dir_all(d, relative_yy_directory(T, Head(q))) IN
         IF r.ok THEN serialize_remove(T, Tail(q), r.disk)
         ELSE [ok |-> FALSE, disk |-> d]

\* serialize, second loop: the folders to clean up, joined to the
\* directory of the resource kind.
RECURSIVE serialize_folders(_, _, _)
serialize_folders(T, q, d) ==
    IF q = <<>> THEN [ok |-> TRUE, disk |-> d]
    ELSE LET r == remove_dir_all(d, <<subpath_name(T)>> \o Head(q)) IN
         IF r.ok THEN serialize_folders(T, Tail(q), r.disk)
         ELSE [ok |-> FALSE, disk |-> d]

\* serialize, third loop: the files to clean up, joined the same way.
RECURSIVE serialize_files(_, _, _)
serialize_files(T, q, d) ==
    IF q = <<>> THEN [ok |-> TRUE, disk |-> d]
    ELSE LET r == remove_file(d, <<subpath_name(T)>> \o Head(q)) IN
         IF r.ok THEN serialize_files(T, Tail(q), r.disk)
         ELSE [ok |-> FALSE, disk |-> d]

\* serialize, last loop: write every queued resource; the lookup that
\* "should always be valid" panics when the resource is not in the map.
RECURSIVE serialize_reserialize(_, _, _, _)
serialize_reserialize(T, resources, q, d) ==
    IF q = <<>> THEN [ok |-> TRUE, disk |-> d]
    ELSE IF Head(q) \notin DOMAIN resources THEN [ok |-> FALSE, disk |-> d]
    ELSE LET resource == resources[Head(q)]
             yy == resource.yy_resource
             yy_path == FilesystemPath_new(T, yy.name).path
             parent_dir == SubSeq(yy_path, 1, Len(yy_path) - 1)
             d1 == create_dir_all(d, parent_dir)
             d2 == IF resource.associated_data # None
                   THEN serialize_associated_data(
                            T, yy, parent_dir, resource.associated_data[1], d1)
                   ELSE d1
         IN serialize_reserialize(T, resources, Tail(q),
                                  serialize_json(d2, yy_path, yy))

\* (mutant: the resources written stay queued.)
serialize_keeping_queue(h, T, d) ==
    LET r1 == serialize_remove(T, h.resources_to_remove, d)
        h1 == [h EXCEPT !.resources_to_remove = <<>>]
        r2 == serialize_folders(T, h.associated_folders_to_cleanup, r1.disk)
        h2 == [h1 EXCEPT !.associated_folders_to_cleanup = <<>>]
        r3 == serialize_files(T, h.associated_files_to_cleanup, r2.disk)
        h3 == [h2 EXCEPT !.associated_files_to_cleanup = <<>>]
        r4 == serialize_reserialize(T, h.resources,
                                    h.resources_to_reserialize, r3.disk)
    IN IF ~r1.ok THEN [self |-> h1, disk |-> r1.disk, ret |-> "IOFailure"]
       ELSE IF ~r2.ok THEN [self |-> h2, disk |-> r2.disk, ret |-> "IOFailure"]
       ELSE IF ~r3.ok THEN [self |-> h3, disk |-> r3.disk, ret |-> "IOFailure"]
       ELSE IF ~r4.ok THEN [self |-> h3, disk |-> r4.disk, ret |-> "Panic"]
       ELSE [self |-> h3, disk |-> r4.disk, ret |-> "Ok"]

\* (mutant: a failed serialize puts the disk back as it found it.)
serialize_rolling_back(h, T, d) ==
    LET r1 == serialize_remove(T, h.resources_to_remove, d)
        h1 == [h EXCEPT !.resources_to_remove = <<>>]
        r2 == serialize_folders(T, h.associated_folders_to_cleanup, r1.disk)
        h2 == [h1 EXCEPT !.associated_folders_to_cleanup = <<>>]
        r3 == serialize_files(T, h.associated_files_to_cleanup, r2.disk)
        h3 == [h2 EXCEPT !.associated_files_to_cleanup = <<>>]
        r4 == serialize_reserialize(T, h.resources,
                                    h.resources_to_reserialize, r3.disk)
        h4 == [h3 EXCEPT !.resources_to_reserialize = <<>>]
    IN IF ~r1.ok THEN [self |-> h1, disk |-> d, ret |-> "IOFailure"]
       ELSE IF ~r2.ok THEN [self |-> h2, disk |-> d, ret |-> "IOFailure"]
       ELSE IF ~r3.ok THEN [self |-> h3, disk |-> d, ret |-> "IOFailure"]
       ELSE IF ~r4.ok THEN [self |-> h4, disk |-> d, ret |-> "Panic"]
       ELSE [self |-> h4, disk |-> r4.disk, ret |-> "Ok"]

\* (mutant: the resources are written first, then the removals and the
\* cleanups are done.)
serialize_writing_first(h, T, d) ==
    LET r4 == serialize_reserialize(T, h.resources,
                                    h.resources_to_reserialize, d)
        h4 == [h EXCEPT !.resources_to_reserialize = <<>>]
        r1 == serialize_remove(T, h.resources_to_remove, r4.disk)
        h1 == [h4 EXCEPT !.resources_to_remove = <<>>]
        r2 == serialize_folders(T, h.associated_folders_to_cleanup, r1.disk)
        h2 == [h1 EXCEPT !.associated_folders_to_cleanup = <<>>]
        r3 == serialize_files(T, h.associated_files_to_cleanup, r2.disk)
        h3 == [h2 EXCEPT !.associated_files_to_cleanup = <<>>]
    IN IF ~r4.ok THEN [self |-> h4, disk |-> r4.disk, ret |-> "Panic"]
       ELSE IF ~r1.ok THEN [self |-> h1, disk |-> r1.disk, ret |-> "IOFailure"]
       ELSE IF ~r2.ok THEN [self |-> h2, disk |-> r2.disk, ret |-> "IOFailure"]
       ELSE IF ~r3.ok THEN [self |-> h3, disk |-> r3.disk, ret |-> "IOFailure"]
       ELSE [self |-> h3, disk |-> r3.disk, ret |-> "Ok"]

\* serialize: the four loops in order. Each loop drains its queue, and a
\* drain that is left early still empties the queue it was draining; the
\* queues of the loops not reached keep their entries.
serialize(h, T, d) ==
    LET r1 == serialize_remove(T, h.resources_to_remove, d)
        h1 == [h EXCEPT !.resources_to_remove = <<>>]
        r2 == serialize_folders(T, h.associated_folders_to_cleanup, r1.disk)
        h2 == [h1 EXCEPT !.associated_folders_to_cleanup = <<>>]
        r3 == serialize_files(T, h.associated_files_to_cleanup, r2.disk)
        h3 == [h2 EXCEPT !.associated_files_to_cleanup = <<>>]
        r4 == serialize_reserialize(T, h.resources,
                                    h.resources_to_reserialize, r3.disk)
        h4 == [h3 EXCEPT !.resources_to_reserialize = <<>>]
    IN IF ~r1.ok THEN [self |-> h1, disk |-> r1.disk, ret |-> "IOFailure"]
       ELSE IF ~r2.ok THEN [self |-> h2, disk |-> r2.disk, ret |-> "IOFailure"]
       ELSE IF ~r3.ok THEN [self |-> h3, disk |-> r3.disk, ret |-> "IOFailure"]
       ELSE IF ~r4.ok THEN [self |-> h4, disk |-> r4.disk, ret |-> "Panic"]
       ELSE [self |-> h4, disk |-> r4.disk, ret |-> "Ok"]

\* ---------------------------------------------------------------- Resource
\* Resource::parse_subpath
parse_subpath(subpath) ==
    IF subpath = "sprites" THEN Some("Sprite")
    ELSE IF subpath = "scripts" THEN Some("Script")
    ELSE None

\* ---------------------------------------------------------------- PathGraph
\* The folder graph is a function from the view path of a folder (the
\* sequence of folder names below the root) to its child folders, in
\* order, and its Files.
Folder_new == [folders |-> <<>>, files |-> <<>>]

ParentOf(p) == SubSeq(p, 1, Len(p) - 1)
LastOf(p) == p[Len(p)]

RemoveName(s, x) == SelectSeq(s, LAMBDA y : y # x)

\* resolve_type: what a view path names.
resolve_type(vfs, p) ==
    IF p \in DOMAIN vfs THEN "folder"
    ELSE IF /\ Len(p) >= 1
            /\ ParentOf(p) \in DOMAIN vfs
            /\ Files_contains_name(vfs[ParentOf(p)].files, LastOf(p))
         THEN "file"
    ELSE "none"

\* The folders whose Files hold a leaf of this name.
FoldersHolding(vfs, name) ==
    {p \in DOMAIN vfs : Files_contains_name(vfs[p].files, name)}

\* (mutant: the new folder becomes the first child of its parent.)
insert_folder_at_front(vfs, parent, name) ==
    IF parent \notin DOMAIN vfs
    THEN [status |-> "PathNotFound", vfs |-> vfs]
    ELSE IF name \in SeqToSet(vfs[parent].folders)
    THEN [status |-> "FolderAlreadyPresent", vfs |-> vfs]
    ELSE [status |-> "Ok",
          vfs |-> (Append(parent, name) :> Folder_new)
                  @@ [vfs EXCEPT ![parent].folders = <<name>> \o @]]

\* insert_folder
insert_folder(vfs, parent, name) ==
    IF parent \notin DOMAIN vfs
    THEN [status |-> "PathNotFound", vfs |-> vfs]
    ELSE IF name \in SeqToSet(vfs[parent].folders)
    THEN [status |-> "FolderAlreadyPresent", vfs |-> vfs]
    ELSE [status |-> "Ok",
          vfs |-> (Append(parent, name) :> Folder_new)
                  @@ [vfs EXCEPT ![parent].folders = Append(@, name)]]

\* move: a folder moves with its whole subtree, a file leaf is detached
\* from its folder and attached at the end of the destination.
move_folder(vfs, start, end) ==
    LET name == LastOf(start)
        rekey(p) == IF IsPrefix(start, p)
                    THEN end \o <<name>> \o SubSeq(p, Len(start) + 1, Len(p))
                    ELSE p
        v1 == [vfs EXCEPT ![ParentOf(start)].folders = RemoveName(@, name)]
        v2 == [v1 EXCEPT ![end].folders = Append(@, name)]
    IN [q \in {rekey(p) : p \in DOMAIN vfs} |->
            v2[CHOOSE p \in DOMAIN vfs : rekey(p) = q]]

move_file(vfs, start, end) ==
    LET name == LastOf(start)
        src == ParentOf(start)
        leaf == vfs[src].files[Files_position(vfs[src].files, name)]
        v1 == [vfs EXCEPT ![src].files = Files_detach(@, name)]
    IN [v1 EXCEPT ![end].files = Files_attach(@, leaf)]

\* (mutant: a folder may be moved below itself.)
move_unchecked(vfs, start, end) ==
    LET ty == resolve_type(vfs, start) IN
    IF ty = "none" \/ end \notin DOMAIN vfs
    THEN [status |-> "PathNotFound", vfs |-> vfs, moved |-> "none"]
    ELSE IF ty = "folder" /\ start = root_path
    THEN [status |-> "InvalidMove", vfs |-> vfs, moved |-> "none"]
    ELSE IF ty = "folder" /\ LastOf(start) \in SeqToSet(vfs[end].folders)
    THEN [status |-> "FolderAlreadyPresent", vfs |-> vfs, moved |-> "none"]
    ELSE IF ty = "folder"
    THEN [status |-> "Ok", vfs |-> move_folder(vfs, start, end), moved |-> "folder"]
    ELSE [status |-> "Ok", vfs |-> move_file(vfs, start, end), moved |-> "file"]

move(vfs, start, end) ==
    LET ty == resolve_type(vfs, start) IN
    IF ty = "none" \/ end \notin DOMAIN vfs
    THEN [status |-> "PathNotFound", vfs |-> vfs, moved |-> "none"]
    ELSE IF ty = "folder" /\ IsPrefix(start, end)
    THEN [status |-> "InvalidMove", vfs |-> vfs, moved |-> "none"]
    ELSE IF ty = "folder" /\ LastOf(start) \in SeqToSet(vfs[end].folders)
    THEN [status |-> "FolderAlreadyPresent", vfs |-> vfs, moved |-> "none"]
    ELSE IF ty = "folder"
    THEN [status |-> "Ok", vfs |-> move_folder(vfs, start, end), moved |-> "folder"]
    ELSE [status |-> "Ok", vfs |-> move_file(vfs, start, end), moved |-> "file"]

\* The file leaves of a subtree, in order: the folder's own Files, then
\* those of each child folder.
RECURSIVE leaves_of(_, _)
RECURSIVE leaves_of_children(_, _, _)
leaves_of(vfs, path) ==
    vfs[path].files \o leaves_of_children(vfs, path, vfs[path].folders)
leaves_of_children(vfs, path, kids) ==
    IF kids = <<>> THEN <<>>
    ELSE leaves_of(vfs, Append(path, Head(kids)))
         \o leaves_of_children(vfs, path, Tail(kids))

\* (mutant: a folder is deleted with what it holds whether or not the
\* deletion is recursive.)
delete_folder_forced(vfs, path, recursive) ==
    IF resolve_type(vfs, path) = "file"
    THEN [status |-> "BadRemove", vfs |-> vfs, leaves |-> <<>>]
    ELSE IF path \notin DOMAIN vfs
    THEN [status |-> "PathNotFound", vfs |-> vfs, leaves |-> <<>>]
    ELSE IF path = root_path
    THEN [status |-> "InvalidMove", vfs |-> vfs, leaves |-> <<>>]
    ELSE [status |-> "Ok",
          vfs |-> Without([vfs EXCEPT ![ParentOf(path)].folders =
                               RemoveName(@, LastOf(path))],
                          {p \in DOMAIN vfs : IsPrefix(path, p)}),
          leaves |-> leaves_of(vfs, path)]

\* (mutant: the folder is unlinked from its parent and dropped, the folders
\* below it are left in the graph.)
delete_folder_shallow(vfs, path, recursive) ==
    IF resolve_type(vfs, path) = "file"
    THEN [status |-> "BadRemove", vfs |-> vfs, leaves |-> <<>>]
    ELSE IF path \notin DOMAIN vfs
    THEN [status |-> "PathNotFound", vfs |-> vfs, leaves |-> <<>>]
    ELSE IF path = root_path
    THEN [status |-> "InvalidMove", vfs |-> vfs, leaves |-> <<>>]
    ELSE IF ~recursive /\ (vfs[path].folders # <<>> \/ ~Files_is_empty(vfs[path].files))
    THEN [status |-> "NotEmpty", vfs |-> vfs, leaves |-> <<>>]
    ELSE [status |-> "Ok",
          vfs |-> Without([vfs EXCEPT ![ParentOf(path)].folders =
                               RemoveName(@, LastOf(path))],
                          {path}),
          leaves |-> leaves_of(vfs, path)]

\* delete_folder
delete_folder(vfs, path, recursive) ==
    IF resolve_type(vfs, path) = "file"
    THEN [status |-> "BadRemove", vfs |-> vfs, leaves |-> <<>>]
    ELSE IF path \notin DOMAIN vfs
    THEN [status |-> "PathNotFound", vfs |-> vfs, leaves |-> <<>>]
    ELSE IF path = root_path
    THEN [status |-> "InvalidMove", vfs |-> vfs, leaves |-> <<>>]
    ELSE IF ~recursive /\ (vfs[path].folders # <<>> \/ ~Files_is_empty(vfs[path].files))
    THEN [status |-> "NotEmpty", vfs |-> vfs, leaves |-> <<>>]
    ELSE [status |-> "Ok",
          vfs |-> Without([vfs EXCEPT ![ParentOf(path)].folders =
                               RemoveName(@, LastOf(path))],
                          {p \in DOMAIN vfs : IsPrefix(path, p)}),
          leaves |-> leaves_of(vfs, path)]

\* ------------------------------------------------------------------ YypBoss
\* The engine state b is the folder graph, the resource names and one
\* handler per resource kind. Every operation returns the new engine
\* state, a status and the value it hands back.
\* (mutant: the uniqueness check is left out.)
add_resource_unchecked(b, T, yy, data) ==
    IF yy.parent \notin DOMAIN b.vfs
    THEN [boss |-> b, status |-> "PathNotFound", ret |-> None]
    ELSE LET files == b.vfs[yy.parent].files
             f == Files_add(files, T, yy, Len(files), b.resource_names)
         IN [boss |-> [vfs |-> [b.vfs EXCEPT ![yy.parent].files = f.files],
                       resource_names |-> f.rn,
                       handlers |-> [b.handlers EXCEPT
                                        ![T] = set(@, T, yy, data).self]],
             status |-> "Ok", ret |-> None]

add_resource(b, T, yy, data) ==
    IF ResourceNames_contains(b.resource_names, yy.name)
    THEN [boss |-> b, status |-> "NameCollision", ret |-> None]
    ELSE IF yy.parent \notin DOMAIN b.vfs
    THEN [boss |-> b, status |-> "PathNotFound", ret |-> None]
    ELSE LET files == b.vfs[yy.parent].files
             f == Files_add(files, T, yy, Len(files), b.resource_names)
         IN [boss |-> [vfs |-> [b.vfs EXCEPT ![yy.parent].files = f.files],
                       resource_names |-> f.rn,
                       handlers |-> [b.handlers EXCEPT
                                        ![T] = set(@, T, yy, data).self]],
             status |-> "Ok", ret |-> None]

OfType(b, T, name) ==
    /\ ResourceNames_contains(b.resource_names, name)
    /\ b.resource_names[name].resource = T
    /\ name \in DOMAIN b.handlers[T].resources

\* (mutant: replace does not look the resource up first.)
replace_resource_unchecked(b, T, yy, data) ==
    LET r == set(b.handlers[T], T, yy, data) IN
    [boss |-> [b EXCEPT !.handlers[T] = r.self], status |-> "Ok", ret |-> r.ret]

replace_resource(b, T, yy, data) ==
    IF ~OfType(b, T, yy.name)
    THEN [boss |-> b, status |-> "NotFound", ret |-> None]
    ELSE LET r == set(b.handlers[T], T, yy, data)
         IN [boss |-> [b EXCEPT !.handlers[T] = r.self],
             status |-> "Ok", ret |-> r.ret]

remove_resource(b, T, name, d) ==
    IF ~OfType(b, T, name)
    THEN [boss |-> b, status |-> "NotFound", ret |-> None]
    ELSE LET holders == FoldersHolding(b.vfs, name)
             folder == CHOOSE p \in holders : TRUE
             f == Files_remove(IF holders = {} THEN <<>> ELSE b.vfs[folder].files,
                               name, b.resource_names)
             r == remove(b.handlers[T], T, name, d)
         IN [boss |-> [vfs |-> IF holders = {} THEN b.vfs
                               ELSE [b.vfs EXCEPT ![folder].files = f.files],
                       resource_names |-> f.rn,
                       handlers |-> [b.handlers EXCEPT ![T] = r.self]],
             status |-> "Ok", ret |-> r.ret]

\* set_resource: replaces any resource of the same name, or adds a new one.
set_resource(b, T, yy, data, d) ==
    IF OfType(b, T, yy.name) THEN replace_resource(b, T, yy, data)
    ELSE IF ResourceNames_contains(b.resource_names, yy.name)
    THEN LET rm == remove_resource(b, b.resource_names[yy.name].resource,
                                   yy.name, d)
         IN add_resource(rm.boss, T, yy, data)
    ELSE add_resource(b, T, yy, data)

get_resource(b, T, name) ==
    LET r == get(b.handlers[T], name) IN
    [boss |-> [b EXCEPT !.handlers[T] = r.self],
     status |-> IF r.ret = None THEN "NotFound" ELSE "Ok", ret |-> r.ret]

exists(b, T, name) ==
    /\ ResourceNames_contains(b.resource_names, name)
    /\ b.resource_names[name].resource = T

move_item(b, start, end) ==
    LET m == move(b.vfs, start, end) IN
    [boss |-> [b EXCEPT !.vfs = m.vfs,
                        !.resource_names =
                            IF m.moved = "file"
                            THEN [@ EXCEPT ![LastOf(start)].parent = end]
                            ELSE @],
     status |-> m.status, ret |-> None]

\* The cascade of delete_folder: remove_resource for every leaf, keeping
\* the names of those that failed.
RECURSIVE cascade(_, _, _)
cascade(b, leaves, d) ==
    IF leaves = <<>> THEN [boss |-> b, failed |-> <<>>]
    ELSE LET leaf == Head(leaves)
             T == parse_subpath(leaf.path[1])[1]
             r == remove_resource(b, T, leaf.name, d)
             rest == cascade(r.boss, Tail(leaves), d)
         IN [boss |-> rest.boss,
             failed |-> IF r.status = "Ok" THEN rest.failed
                        ELSE <<leaf.name>> \o rest.failed]

delete_folder_cascade(b, path, recursive, d) ==
    LET del == delete_folder(b.vfs, path, recursive) IN
    IF del.status # "Ok"
    THEN [boss |-> b, status |-> del.status, ret |-> None]
    ELSE LET c == cascade([b EXCEPT !.vfs = del.vfs], del.leaves, d) IN
         [boss |-> c.boss,
          status |-> IF c.failed = <<>> THEN "Ok" ELSE "Aggregate",
          ret |-> c.failed]

add_folder_to_end(b, parent, name) ==
    LET i == insert_folder(b.vfs, parent, name) IN
    [boss |-> [b EXCEPT !.vfs = i.vfs], status |-> i.status, ret |-> None]

\* flush: serialize every handler in turn, stopping at the first failure.
HandlerOrder == <<"Sprite", "Script">>

RECURSIVE flush_from(_, _, _)
flush_from(hs, i, d) ==
    IF i > Len(HandlerOrder) THEN [handlers |-> hs, disk |-> d, status |-> "Ok"]
    ELSE LET T == HandlerOrder[i]
             r == serialize(hs[T], T, d)
             hs1 == [hs EXCEPT ![T] = r.self]
         IN IF r.ret = "Ok" THEN flush_from(hs1, i + 1, r.disk)
            ELSE [handlers |-> hs1, disk |-> r.disk, status |-> r.ret]

\* -------------------------------------------------------------------- state
VARIABLES
    phase,            \* "Loading", "Ready", or "Aborted" after a panic
    vfs,              \* the folder graph
    resource_names,   \* the name index
    handlers,         \* one YyResourceHandler per resource kind
    disk,             \* the resource directories on disk
    last              \* the last command and what it answered

vars == <<phase, vfs, resource_names, handlers, disk, last>>

Boss == [vfs |-> vfs, resource_names |-> resource_names, handlers |-> handlers]

\* A project on disk: each of its resources flushed in its own directory.
ProjectOnDisk(kinds) ==
    LET entry(n, seg) ==
            IF seg = "dir" THEN DirEntry
            ELSE IF seg = "yy" THEN YyEntry(YyDef(n, root_path, 1))
            ELSE IF seg = "layers" THEN DirEntry
            ELSE AssocEntry(1)
        segs(T) == IF T = "Sprite"
                   THEN {"dir", "yy", "layers", FrameUniverse[1]}
                   ELSE {"dir", "yy", "gml"}
        pathOf(n, seg) ==
            IF seg = "dir" THEN relative_yy_directory(kinds[n], n)
            ELSE Append(relative_yy_directory(kinds[n], n), seg)
        keys == {<<n, seg>> : n \in DOMAIN kinds, seg \in {"dir", "yy", "layers", "gml", FrameUniverse[1]}}
        used == {k \in keys : k[2] \in segs(kinds[k[1]])}
    IN [p \in {pathOf(k[1], k[2]) : k \in used} |->
            LET k == CHOOSE k \in used : pathOf(k[1], k[2]) = p
            IN entry(k[1], k[2])]

Init ==
    /\ phase = "Loading"
    /\ vfs = (root_path :> Folder_new)
    /\ resource_names = <<>>
    /\ handlers = [T \in Resource |-> YyResourceHandler_new]
    /\ \E S \in SUBSET Names : \E kinds \in [S -> Resource] :
          disk = ProjectOnDisk(kinds)
    /\ last = [op |-> "new", status |-> "Ok", ret |-> None]

\* ------------------------------------------------------------------ actions
Answer(op, status, ret) == [op |-> op, status |-> status, ret |-> ret]

Apply(r, op) ==
    /\ vfs' = r.boss.vfs
    /\ resource_names' = r.boss.resource_names
    /\ handlers' = r.boss.handlers
    /\ last' = Answer(op, r.status, r.ret)

\* The pending queues are unbounded in the program; a command that would
\* queue more is taken only while every queue it may grow has room.
RoomToSet(k) ==
    \A T \in Resource : Len(handlers[T].resources_to_reserialize) < k

RoomToRemove(k) ==
    \A T \in Resource : Len(handlers[T].resources_to_remove) < k

RoomToCascade(k) ==
    \A T \in Resource :
        Len(handlers[T].resources_to_remove)
          + Cardinality(DOMAIN handlers[T].resources) <= k

\* The definition files of the project on disk that are not loaded yet.
Unloaded ==
    {p \in DOMAIN disk : disk[p].kind = "yy"
                         /\ disk[p].yy.name \notin DOMAIN resource_names}

\* Startup: Files::load_in and load_on_startup for one resource of the
\* project.
LoadIn(p) ==
    /\ phase = "Loading"
    /\ p \in Unloaded
    /\ LET yy == disk[p].yy
           T == parse_subpath(p[1])[1]
           files == vfs[yy.parent].files
           f == Files_load_in(files, T, yy, Len(files), resource_names)
       IN /\ vfs' = [vfs EXCEPT ![yy.parent].files = f.files]
          /\ resource_names' = f.rn
          /\ handlers' = [handlers EXCEPT ![T] = load_on_startup(@, yy)]
    /\ last' = Answer("load", "Ok", None)
    /\ UNCHANGED <<phase, disk>>

FinishLoading ==
    /\ phase = "Loading"
    /\ Unloaded = {}
    /\ phase' = "Ready"
    /\ UNCHANGED <<vfs, resource_names, handlers, disk, last>>

AddResource(T, yy, data) ==
    /\ phase = "Ready"
    /\ Apply(add_resource(Boss, T, yy, data), "add")
    /\ UNCHANGED <<phase, disk>>

ReplaceResource(T, yy, data) ==
    /\ phase = "Ready"
    /\ Apply(replace_resource(Boss, T, yy, data), "replace")
    /\ UNCHANGED <<phase, disk>>

SetResource(T, yy, data) ==
    /\ phase = "Ready"
    /\ yy.parent \in DOMAIN vfs
    /\ Apply(set_resource(Boss, T, yy, data, disk), "set")
    /\ UNCHANGED <<phase, disk>>

\* (mutant: the directory of a removed resource is deleted at once.)
RemoveResource_deleting(T, name) ==
    /\ phase = "Ready"
    /\ Apply(remove_resource(Boss, T, name, disk), "remove")
    /\ disk' = remove_dir_all(disk, relative_yy_directory(T, name)).disk
    /\ UNCHANGED phase

RemoveResource(T, name) ==
    /\ phase = "Ready"
    /\ Apply(remove_resource(Boss, T, name, disk), "remove")
    /\ UNCHANGED <<phase, disk>>

GetResource(T, name) ==
    /\ phase = "Ready"
    /\ Apply(get_resource(Boss, T, name), "get")
    /\ UNCHANGED <<phase, disk>>

Exists(T, name) ==
    /\ phase = "Ready"
    /\ last' = Answer("exists", "Ok", Some(exists(Boss, T, name)))
    /\ UNCHANGED <<phase, vfs, resource_names, handlers, disk>>

LoadAssociatedData(T, name) ==
    /\ phase = "Ready"
    /\ LET r == load_resource_associated_data(
                    handlers[T], T, name, relative_yy_directory(T, name), disk)
       IN /\ handlers' = [handlers EXCEPT ![T] = r.self]
          /\ last' = Answer("load_associated",
                            IF r.ok THEN "Ok" ELSE r.err,
                            IF r.ok THEN Some(r.data) ELSE None)
    /\ UNCHANGED <<phase, vfs, resource_names, disk>>

MoveItem(start, end) ==
    /\ phase = "Ready"
    /\ Apply(move_item(Boss, start, end), "move_item")
    /\ UNCHANGED <<phase, disk>>

DeleteFolder(path, recursive) ==
    /\ phase = "Ready"
    /\ Apply(delete_folder_cascade(Boss, path, recursive, disk), "delete_folder")
    /\ UNCHANGED <<phase, disk>>

AddFolderToEnd(parent, name) ==
    /\ phase = "Ready"
    /\ Apply(add_folder_to_end(Boss, parent, name), "add_folder_to_end")
    /\ UNCHANGED <<phase, disk>>

Flush ==
    /\ phase = "Ready"
    /\ LET r == flush_from(handlers, 1, disk)
       IN /\ handlers' = r.handlers
          /\ disk' = r.disk
          /\ last' = Answer("flush", r.status, None)
          /\ phase' = IF r.status = "Panic" THEN "Aborted" ELSE "Ready"
    /\ UNCHANGED <<vfs, resource_names>>

\* ------------------------------------------------- the resource commands
\* The commands on resources, on a project whose resources sit in the root
\* folder. A definition handed to a command names the root as its parent,
\* or a folder that does not exist; its payload is made with it.
MissingFolder == <<"Enemies">>

Defs == {YyDef(n, p, v) : n \in Names, p \in {root_path, MissingFolder}, v \in Vers}

Next ==
    \/ \E p \in DOMAIN disk : LoadIn(p)
    \/ FinishLoading
    \/ \E T \in Resource, yy \in Defs :
          RoomToSet(MaxQueue) /\ AddResource(T, yy, yy.v)
    \/ \E T \in Resource, yy \in Defs :
          RoomToSet(MaxQueue) /\ ReplaceResource(T, yy, yy.v)
    \/ \E T \in Resource, yy \in Defs :
          RoomToSet(MaxQueue) /\ RoomToRemove(MaxQueue) /\ SetResource(T, yy, yy.v)
    \/ \E T \in Resource, name \in Names :
          RoomToRemove(MaxQueue) /\ RemoveResource(T, name)
    \/ \E T \in Resource, name \in Names : GetResource(T, name)
    \/ \E T \in Resource, name \in Names : Exists(T, name)
    \/ \E T \in Resource, name \in Names : LoadAssociatedData(T, name)
    \/ Flush

Spec == Init /\ [][Next]_vars

\* ------------------------------------------- the folder graph commands
\* The commands on the folder graph, on a project that starts empty:
\* folders are made, resources are added to the folders that exist, and
\* items are moved and deleted. A path handed to a command names an item
\* that exists, or one path that names nothing.
InitVfs ==
    /\ phase = "Loading"
    /\ vfs = (root_path :> Folder_new)
    /\ resource_names = <<>>
    /\ handlers = [T \in Resource |-> YyResourceHandler_new]
    /\ disk = <<>>
    /\ last = Answer("new", "Ok", None)

NoPath == <<"Nowhere">>

FolderPaths == DOMAIN vfs \cup {NoPath}

ItemPaths ==
    FolderPaths
    \cup {q \in {Append(p, n) : p \in DOMAIN vfs, n \in VfsNames} :
               resolve_type(vfs, q) = "file"}

VfsResource == {"Script"}

VfsDefs == {YyDef(n, p, 1) : n \in VfsNames, p \in {root_path, NoPath}}

NextVfs ==
    \/ FinishLoading
    \/ \E parent \in FolderPaths, name \in FolderNames :
          Cardinality(DOMAIN vfs) <= MaxFolders /\ AddFolderToEnd(parent, name)
    \/ \E T \in VfsResource, yy \in VfsDefs :
          RoomToSet(MaxVfsQueue) /\ AddResource(T, yy, yy.v)
    \/ \E T \in VfsResource, yy \in VfsDefs :
          RoomToSet(MaxVfsQueue) /\ ReplaceResource(T, yy, yy.v)
    \/ \E T \in VfsResource, yy \in VfsDefs :
          RoomToSet(MaxVfsQueue) /\ RoomToRemove(MaxVfsQueue) /\ SetResource(T, yy, yy.v)
    \/ \E T \in VfsResource, name \in VfsNames :
          RoomToRemove(MaxVfsQueue) /\ RemoveResource(T, name)
    \/ \E start \in ItemPaths, end \in FolderPaths : MoveItem(start, end)
    \/ \E path \in ItemPaths, recursive \in BOOLEAN :
          RoomToCascade(MaxVfsQueue) /\ DeleteFolder(path, recursive)
    \/ Flush

SpecVfs == InitVfs /\ [][NextVfs]_vars

\* ------------------------------------------------- the folder deletions
\* The deletion of folders, on a project that starts empty: folders are
\* made, resources are added to the folders that exist, and folders are
\* deleted with what they hold. A deletion is taken
\* while the removal queue has room for every leaf below the folder.
RoomToDelete(path, k) ==
    path \in DOMAIN vfs
      => \A T \in Resource :
            Len(handlers[T].resources_to_remove) + Len(leaves_of(vfs, path)) <= k

CascadeDefs == {YyDef(n, p, 1) : n \in VfsNames, p \in DOMAIN vfs}

NextCascade ==
    \/ FinishLoading
    \/ \E parent \in FolderPaths, name \in FolderNames :
          Cardinality(DOMAIN vfs) <= MaxFolders /\ AddFolderToEnd(parent, name)
    \/ \E T \in VfsResource, yy \in CascadeDefs :
          RoomToSet(MaxQueue) /\ AddResource(T, yy, yy.v)
    \/ \E path \in ItemPaths, recursive \in BOOLEAN :
          RoomToDelete(path, MaxQueue) /\ DeleteFolder(path, recursive)

SpecCascade == InitVfs /\ [][NextCascade]_vars

\* ------------------------------------------------- the replacements
\* The replacement of resources that are on disk, one of them a resource
\* whose name is the name of the folder a sprite keeps its layers in: the
\* project is loaded, resources are replaced and the project is flushed.
CleanupNames == {"spr_player", "layers"}

InitCleanup ==
    /\ phase = "Loading"
    /\ vfs = (root_path :> Folder_new)
    /\ resource_names = <<>>
    /\ handlers = [T \in Resource |-> YyResourceHandler_new]
    /\ \E S \in SUBSET CleanupNames : \E kinds \in [S -> Resource] :
          disk = ProjectOnDisk(kinds)
    /\ last = Answer("new", "Ok", None)

CleanupDefs == {YyDef(n, root_path, v) : n \in CleanupNames, v \in Vers}

NextCleanup ==
    \/ \E p \in DOMAIN disk : LoadIn(p)
    \/ FinishLoading
    \/ \E T \in Resource, yy \in CleanupDefs :
          RoomToSet(MaxVfsQueue) /\ ReplaceResource(T, yy, yy.v)
    \/ Flush

SpecCleanup == InitCleanup /\ [][NextCleanup]_vars

\* ------------------------------------------------------- a Files list
\* The Files list of one folder, taken by itself: its five operations are
\* called in any order, with any name and any resource kind. The list is
\* unbounded in the program; an operation that appends is taken while the
\* list is shorter than MaxFiles.
FilesUnderTest == vfs[root_path].files

FilesDefs == {YyDef(n, root_path, 1) : n \in VfsNames}

FilesApply(files, rn, op, name) ==
    /\ vfs' = [vfs EXCEPT ![root_path].files = files]
    /\ resource_names' = rn
    /\ last' = Answer(op, "Ok", name)
    /\ UNCHANGED <<phase, handlers, disk>>

FilesLoadIn(T, yy) ==
    /\ Len(FilesUnderTest) < MaxFiles
    /\ LET f == Files_load_in(FilesUnderTest, T, yy, Len(FilesUnderTest),
                              resource_names)
       IN FilesApply(f.files, f.rn, "Files::load_in", yy.name)

FilesAdd(T, yy) ==
    /\ Len(FilesUnderTest) < MaxFiles
    /\ LET f == Files_add(FilesUnderTest, T, yy, Len(FilesUnderTest),
                          resource_names)
       IN FilesApply(f.files, f.rn, "Files::add", yy.name)

FilesAttach(fsyspath) ==
    /\ Len(FilesUnderTest) < MaxFiles
    /\ FilesApply(Files_attach(FilesUnderTest, fsyspath), resource_names,
                  "Files::attach", fsyspath.name)

FilesDetach(name) ==
    FilesApply(Files_detach(FilesUnderTest, name), resource_names,
               "Files::detach", name)

FilesRemove(name) ==
    LET f == Files_remove(FilesUnderTest, name, resource_names)
    IN FilesApply(f.files, f.rn, "Files::remove", name)

InitFiles ==
    /\ phase = "Ready"
    /\ vfs = (root_path :> Folder_new)
    /\ resource_names = <<>>
    /\ handlers = [T \in Resource |-> YyResourceHandler_new]
    /\ disk = <<>>
    /\ last = Answer("Files::new", "Ok", None)

NextFiles ==
    \/ \E T \in Resource, yy \in FilesDefs : FilesLoadIn(T, yy)
    \/ \E T \in Resource, yy \in FilesDefs : FilesAdd(T, yy)
    \/ \E T \in Resource, n \in VfsNames : FilesAttach(FilesystemPath_new(T, n))
    \/ \E n \in VfsNames : FilesDetach(n)
    \/ \E n \in VfsNames : FilesRemove(n)

SpecFiles == InitFiles /\ [][NextFiles]_vars

\* =================================================================== claims

\* C1: in a Ready state, add_resource with a name that the name index
\* already holds (under any resource kind) answers NameCollision and leaves
\* the folder graph, the name index, every handler with its four queues,
\* and the disk as they were.
C1_AddCollisionChangesNothing ==
    [][\A T \in Resource, yy \in Defs :
          (AddResource(T, yy, yy.v) /\ yy.name \in DOMAIN resource_names)
            => /\ last'.status = "NameCollision"
               /\ UNCHANGED <<vfs, resource_names, handlers, disk>>]_vars

\* A second add of a name has been refused while the handler of another
\* kind than the one added first may hold it.
C1_Witness ==
    /\ last.op = "add"
    /\ last.status = "NameCollision"
    /\ \E n \in DOMAIN resource_names : n \in DOMAIN handlers["Script"].resources

\* The file leaves of the folder graph, each by its folder and position.
Leaves == UNION {{<<p, i>> : i \in 1..Len(vfs[p].files)} : p \in DOMAIN vfs}

LeafName(s) == vfs[s[1]].files[s[2]].name

\* C2: after every command the file leaves of the folder graph and the
\* entries of the name index correspond one to one: every leaf's name is
\* in the index, every indexed name has exactly one leaf, and there are as
\* many leaves as entries.
C2_LeavesMatchNameIndex ==
    /\ \A s \in Leaves : LeafName(s) \in DOMAIN resource_names
    /\ \A n \in DOMAIN resource_names :
          Cardinality({s \in Leaves : LeafName(s) = n}) = 1
    /\ Cardinality(Leaves) = Cardinality(DOMAIN resource_names)

\* Two resources sit in different folders, one of them below the root, a
\* move has just succeeded and a removal is pending.
C2_Witness ==
    /\ Cardinality(DOMAIN resource_names) = 2
    /\ \E p \in DOMAIN vfs : p # root_path /\ Len(vfs[p].files) = 1
    /\ Len(vfs[root_path].files) = 1
    /\ last.op = "move_item" /\ last.status = "Ok"
    /\ \E T \in Resource : handlers[T].resources_to_remove # <<>>

C4_ReplaceOfAbsentChangesNothing ==
    [][\A T \in Resource, yy \in Defs :
          (/\ ReplaceResource(T, yy, yy.v)
           /\ ~(/\ yy.name \in DOMAIN resource_names
                /\ resource_names[yy.name].resource = T))
            => /\ last'.status = "NotFound"
               /\ UNCHANGED <<vfs, resource_names, handlers, disk>>]_vars

\* A replace was refused while the name is held under another kind.
C4_Witness ==
    /\ last.op = "replace"
    /\ last.status = "NotFound"
    /\ resource_names # <<>>

\* C5: removing a name that is absent, or held under another resource
\* kind, reports failure (the handler hands back nothing, the command
\* answers NotFound) and changes nothing.
C5_RemoveOfAbsentChangesNothing ==
    [][\A T \in Resource, name \in Names :
          (/\ RemoveResource(T, name)
           /\ ~(/\ name \in DOMAIN resource_names
                /\ resource_names[name].resource = T))
            => /\ last'.status = "NotFound"
               /\ last'.ret = None
               /\ remove(handlers[T], T, name, disk)
                     = [self |-> handlers[T], ret |-> None]
               /\ UNCHANGED <<vfs, resource_names, handlers, disk>>]_vars

\* A remove was refused while the name is held under another kind and
\* entries are pending.
C5_Witness ==
    /\ last.op = "remove"
    /\ last.status = "NotFound"
    /\ resource_names # <<>>
    /\ \E T \in Resource : handlers[T].resources_to_reserialize # <<>>

\* C6: after a successful add of (T, n, def, data) the resource exists
\* under T and under no other kind and get hands back def; after a
\* successful remove of (T, n) it does not exist and get hands back nothing.
C6_AddThenExistsThenRemove ==
    [][/\ \A T \in Resource, yy \in Defs :
            (AddResource(T, yy, yy.v) /\ last'.status = "Ok")
              => /\ exists(Boss', T, yy.name)
                 /\ get(handlers'[T], yy.name).ret # None
                 /\ get(handlers'[T], yy.name).ret[1].yy_resource = yy
                 /\ \A U \in Resource \ {T} : ~exists(Boss', U, yy.name)
       /\ \A T \in Resource, name \in Names :
            (RemoveResource(T, name) /\ last'.status = "Ok")
              => /\ ~exists(Boss', T, name)
                 /\ get(handlers'[T], name).ret = None]_vars

\* A resource that was added has been removed again before any flush.
C6_Witness ==
    /\ last.op = "remove"
    /\ last.status = "Ok"
    /\ \E T \in Resource :
          /\ handlers[T].resources_to_reserialize # <<>>
          /\ handlers[T].resources_to_remove # <<>>

\* The resource n of kind T was added and removed again since the last
\* flush, and has no directory on disk.
AddedThenRemoved(T, n) ==
    /\ n \in SeqToSet(handlers[T].resources_to_reserialize)
    /\ n \in SeqToSet(handlers[T].resources_to_remove)
    /\ n \notin DOMAIN handlers[T].resources
    /\ n \notin DOMAIN resource_names
    /\ relative_yy_directory(T, n) \notin DOMAIN disk

\* C7: when a resource that has no directory on disk yet is added and then
\* removed with no flush in between, the next flush answers Ok and leaves
\* no directory <subpath>/<name>/ behind.
C7_FlushAfterAddRemove ==
    [][\A T \in Resource, n \in Names :
          (Flush /\ AddedThenRemoved(T, n))
            => /\ last'.status = "Ok"
               /\ relative_yy_directory(T, n) \notin DOMAIN disk']_vars

\* The payload of a held resource: the resident one, else the one its
\* backing files hold.
ExpectedPayload(T, n) ==
    LET e == handlers[T].resources[n]
        de == deserialize_associated_data(
                  T, e.yy_resource, relative_yy_directory(T, n), disk)
    IN IF e.associated_data # None THEN e.associated_data
       ELSE IF de.ok THEN Some(de.data)
       ELSE None

\* C8: a successful remove hands back the definition and its payload: the
\* resident payload as held, and for a payload that is not resident the
\* one its backing files hold, when they are there.
C8_RemoveReturnsPayload ==
    [][\A T \in Resource, n \in Names :
          (RemoveResource(T, n) /\ last'.status = "Ok")
            => last'.ret = Some(<<handlers[T].resources[n].yy_resource,
                                  ExpectedPayload(T, n)>>)]_vars

\* C9: Get and Exists change nothing: the handlers (definitions, resident
\* payloads, queues), the folder graph, the name index and the disk are
\* after the command what they were before it.
C9_GetAndExistsChangeNothing ==
    [][\A T \in Resource, n \in Names :
          (\/ last'.op = "get" /\ GetResource(T, n)
           \/ last'.op = "exists" /\ Exists(T, n))
            => UNCHANGED <<vfs, resource_names, handlers, disk>>]_vars

\* A get has answered with a resource whose payload is resident while
\* entries are pending.
C9_Witness ==
    /\ last.op = "get"
    /\ last.status = "Ok"
    /\ last.ret[1].associated_data # None
    /\ \E T \in Resource : handlers[T].resources_to_reserialize # <<>>

\* C10: move_item of a folder onto itself or below itself answers
\* InvalidMove and leaves the folder graph and the name index unchanged.
C10_MoveBelowItselfIsInvalid ==
    [][\A start \in DOMAIN vfs, end \in DOMAIN vfs :
          (/\ last'.op = "move_item"
           /\ IsPrefix(start, end)
           /\ MoveItem(start, end))
            => /\ last'.status = "InvalidMove"
               /\ UNCHANGED <<vfs, resource_names>>]_vars

\* Enemies holds a resource and the folder Sub, and a move has just been
\* refused as invalid.
C10_Witness ==
    /\ last.op = "move_item"
    /\ last.status = "InvalidMove"
    /\ <<"Enemies", "Sub">> \in DOMAIN vfs
    /\ Len(vfs[<<"Enemies">>].files) = 1

\* How often x occurs in the sequence s.
Occurrences(s, x) == Cardinality({i \in 1..Len(s) : s[i] = x})

\* C11: the folder graph is a tree in every state: the root is there, every
\* other folder is listed exactly once by its parent folder, which is in
\* the graph (so every folder hangs below the root and none below itself),
\* every child a folder lists is in the graph, and every file leaf sits in
\* exactly one folder, once.
C11_FolderGraphIsTree ==
    /\ root_path \in DOMAIN vfs
    /\ \A p \in DOMAIN vfs \ {root_path} :
          /\ ParentOf(p) \in DOMAIN vfs
          /\ Occurrences(vfs[ParentOf(p)].folders, LastOf(p)) = 1
    /\ \A p \in DOMAIN vfs : \A i \in 1..Len(vfs[p].folders) :
          Append(p, vfs[p].folders[i]) \in DOMAIN vfs
    /\ \A s \in Leaves :
          Cardinality({t \in Leaves : LeafName(t) = LeafName(s)}) = 1

\* A folder has been deleted while another folder, which holds a resource
\* that was moved into it, stays.
C11_Witness ==
    /\ last.op = "delete_folder"
    /\ last.status = "Ok"
    /\ Cardinality(DOMAIN vfs) = 2
    /\ \E p \in DOMAIN vfs \ {root_path} : Len(vfs[p].files) = 1

SubtreeNames(path) == {LeafName(s) : s \in {t \in Leaves : IsPrefix(path, t[1])}}

\* C13: after a successful recursive delete_folder of F, F and every
\* folder below it are out of the folder graph; every resource that was a
\* leaf in F's subtree is out of the folder graph, the name index and its
\* handler, and is on its handler's removal queue; the folders and
\* resources outside the subtree are as they were.
C13_RecursiveDeleteRemovesSubtree ==
    [][\A path \in DOMAIN vfs \ {root_path} :
          (/\ last'.op = "delete_folder"
           /\ last'.status = "Ok"
           /\ DeleteFolder(path, TRUE))
            => /\ \A p \in DOMAIN vfs :
                    IF IsPrefix(path, p) THEN p \notin DOMAIN vfs'
                    ELSE p \in DOMAIN vfs' /\ vfs'[p].files = vfs[p].files
               /\ \A n \in SubtreeNames(path) :
                    /\ FoldersHolding(vfs', n) = {}
                    /\ n \notin DOMAIN resource_names'
                    /\ \A T \in Resource : n \notin DOMAIN handlers'[T].resources
                    /\ n \in SeqToSet(handlers'[resource_names[n].resource]
                                         .resources_to_remove)
               /\ \A n \in DOMAIN resource_names \ SubtreeNames(path) :
                    /\ n \in DOMAIN resource_names'
                    /\ resource_names'[n] = resource_names[n]
                    /\ \A T \in Resource :
                          n \in DOMAIN handlers[T].resources
                            => /\ n \in DOMAIN handlers'[T].resources
                               /\ handlers'[T].resources[n] = handlers[T].resources[n]
                    /\ \A T \in Resource :
                          n \notin SeqToSet(handlers'[T].resources_to_remove)
                            \ SeqToSet(handlers[T].resources_to_remove)]_vars

\* A folder has been deleted with the one resource below it, which is now
\* queued for removal, while the other resource of the project stays.
C13_Witness ==
    /\ last.op = "delete_folder"
    /\ last.status = "Ok"
    /\ Cardinality(DOMAIN resource_names) = 1
    /\ Cardinality(DOMAIN handlers["Script"].resources) = 1
    /\ Len(handlers["Script"].resources_to_remove) = 1
    /\ Len(handlers["Script"].resources_to_reserialize) = 2

\* C15: add_folder_to_end of a name the parent does not list yet answers
\* Ok, the new, empty folder is the last child of the parent, and the other
\* children, the leaves, every other folder, the name index, the handlers
\* and the disk are unchanged; for a name the parent lists already it
\* answers FolderAlreadyPresent and nothing changes.
C15_AddFolderToEnd ==
    [][\A parent \in DOMAIN vfs, name \in FolderNames :
          (/\ last'.op = "add_folder_to_end"
           /\ AddFolderToEnd(parent, name))
            => IF name \in SeqToSet(vfs[parent].folders)
               THEN /\ last'.status = "FolderAlreadyPresent"
                    /\ UNCHANGED <<vfs, resource_names, handlers, disk>>
               ELSE /\ last'.status = "Ok"
                    /\ DOMAIN vfs' = DOMAIN vfs \cup {Append(parent, name)}
                    /\ vfs'[Append(parent, name)] = Folder_new
                    /\ vfs'[parent].folders = Append(vfs[parent].folders, name)
                    /\ vfs'[parent].files = vfs[parent].files
                    /\ \A p \in DOMAIN vfs \ {parent} : vfs'[p] = vfs[p]
                    /\ UNCHANGED <<resource_names, handlers, disk>>]_vars

\* A folder has been added to a parent after the child and the resource
\* the parent held already.
C15_Witness ==
    /\ last.op = "add_folder_to_end"
    /\ last.status = "Ok"
    /\ \E p \in DOMAIN vfs :
          Len(vfs[p].folders) = 2 /\ ~Files_is_empty(vfs[p].files)

\* A queue of a handler that held entries is empty after the step: the
\* loop of serialize that drains it was entered.
Entered(T, queue) == handlers[T][queue] # <<>> /\ handlers'[T][queue] = <<>>

\* C16: within the flush of one handler the removals are done before the
\* cleanups and the cleanups before the writes. When the write loop was
\* entered the removal and cleanup queues are drained, when a cleanup loop
\* was entered the removal queue is drained, and when the flush succeeds
\* every resource that was queued for writing has its definition on disk,
\* also when its directory was queued for removal in the same flush.
C16_FlushOrder ==
    [][\A T \in Resource :
          (last'.op = "flush" /\ Flush)
            => /\ Entered(T, "resources_to_reserialize")
                    => /\ handlers'[T].resources_to_remove = <<>>
                       /\ handlers'[T].associated_folders_to_cleanup = <<>>
                       /\ handlers'[T].associated_files_to_cleanup = <<>>
               /\ (\/ Entered(T, "associated_files_to_cleanup")
                   \/ Entered(T, "associated_folders_to_cleanup"))
                    => handlers'[T].resources_to_remove = <<>>
               /\ Entered(T, "associated_files_to_cleanup")
                    => handlers'[T].associated_folders_to_cleanup = <<>>
               /\ last'.status = "Ok"
                    => \A n \in SeqToSet(handlers[T].resources_to_reserialize) :
                          LET yy_path == FilesystemPath_new(T, n).path IN
                          /\ yy_path \in DOMAIN disk'
                          /\ disk'[yy_path]
                                = YyEntry(handlers[T].resources[n].yy_resource)]_vars

\* A flush has failed in a cleanup: the removal queue is drained, the
\* resources queued for writing are still queued.
C16_Witness ==
    /\ last.op = "flush"
    /\ last.status = "IOFailure"
    /\ \E T \in Resource :
          /\ handlers[T].resources_to_remove = <<>>
          /\ handlers[T].associated_folders_to_cleanup = <<>>
          /\ handlers[T].associated_files_to_cleanup # <<>>
          /\ handlers[T].resources_to_reserialize # <<>>

\* The resource n of kind T is on disk as flushed and has been replaced
\* once since; nothing else is pending.
ReplacedOnce(T, n) ==
    LET h == handlers[T]
        yy_path == FilesystemPath_new(T, n).path
    IN /\ n \in DOMAIN h.resources
       /\ h.resources_to_reserialize = <<n>>
       /\ h.resources_to_remove = <<>>
       /\ yy_path \in DOMAIN disk
       /\ h.associated_files_to_cleanup
             = cleanup_on_replace(T, disk[yy_path].yy).files
       /\ h.associated_folders_to_cleanup
             = cleanup_on_replace(T, disk[yy_path].yy).folders
       /\ \A U \in Resource \ {T} :
             /\ handlers[U].resources_to_reserialize = <<>>
             /\ handlers[U].resources_to_remove = <<>>
             /\ handlers[U].associated_files_to_cleanup = <<>>
             /\ handlers[U].associated_folders_to_cleanup = <<>>

\* The paths on disk that the cleanup hook of the flushed definition of n
\* names, in the directory of n.
NamedByOldHook(T, n) ==
    LET dir == relative_yy_directory(T, n)
        hook == cleanup_on_replace(T, disk[FilesystemPath_new(T, n).path].yy)
    IN {q \in DOMAIN disk :
          \/ \E i \in 1..Len(hook.files) : q = dir \o hook.files[i]
          \/ \E i \in 1..Len(hook.folders) : IsPrefix(dir \o hook.folders[i], q)}

\* C17: the flush that follows the replacement of a flushed resource
\* answers Ok, writes the new definition and payload to the resource's
\* directory, deletes every path the cleanup hook of the old definition
\* names (unless the new payload is written there) and deletes nothing
\* else.
C17_ReplaceThenFlush ==
    [][\A T \in Resource, n \in Names :
          (last'.op = "flush" /\ ReplacedOnce(T, n) /\ Flush)
            => LET dir == relative_yy_directory(T, n)
                   new == handlers[T].resources[n]
                   written == {FilesystemPath_new(T, n).path,
                               dir \o assoc_file(T, new.yy_resource),
                               dir \o <<"layers">>, dir}
               IN /\ last'.status = "Ok"
                  /\ disk'[FilesystemPath_new(T, n).path]
                        = YyEntry(new.yy_resource)
                  /\ disk'[dir \o assoc_file(T, new.yy_resource)]
                        = AssocEntry(new.associated_data[1])
                  /\ \A q \in DOMAIN disk \ DOMAIN disk' :
                        q \in NamedByOldHook(T, n)
                  /\ \A q \in NamedByOldHook(T, n) \ written :
                        q \notin DOMAIN disk']_vars

\* C18: no name occurs more than once in a handler's reserialize queue,
\* and none more than once in its removal queue.
C18_QueuesHoldNoDuplicates ==
    \A T \in Resource :
        /\ \A n \in SeqToSet(handlers[T].resources_to_reserialize) :
              Occurrences(handlers[T].resources_to_reserialize, n) = 1
        /\ \A n \in SeqToSet(handlers[T].resources_to_remove) :
              Occurrences(handlers[T].resources_to_remove, n) = 1

\* C19: loading a resource at startup queues nothing, keeps its payload
\* unloaded and leaves the disk alone; a flush taken right after loading
\* answers Ok and leaves the disk, the folder graph, the name index and
\* the handlers as they were.
C19_FlushAfterLoadIsNoOp ==
    [][/\ last'.op = "load"
            => /\ \A T \in Resource :
                    /\ handlers'[T].resources_to_reserialize = <<>>
                    /\ handlers'[T].resources_to_remove = <<>>
                    /\ handlers'[T].associated_files_to_cleanup = <<>>
                    /\ handlers'[T].associated_folders_to_cleanup = <<>>
                    /\ \A n \in DOMAIN handlers'[T].resources :
                          handlers'[T].resources[n].associated_data = None
               /\ UNCHANGED disk
       /\ (last.op \in {"new", "load"} /\ last'.op = "flush" /\ Flush)
            => /\ last'.status = "Ok"
               /\ UNCHANGED <<vfs, resource_names, handlers, disk>>]_vars

\* A flush has answered Ok on a project that was loaded from disk and
\* whose resource is as loaded, its payload not resident.
C19_Witness ==
    /\ last.op = "flush"
    /\ last.status = "Ok"
    /\ \E T \in Resource : \E n \in DOMAIN handlers[T].resources :
          /\ handlers[T].resources[n].associated_data = None
          /\ FilesystemPath_new(T, n).path \in DOMAIN disk

C21_FlushFailureKeepsCommitted ==
    [][(last'.op = "flush" /\ Flush)
          => /\ (\E n \in SeqToSet(handlers[HandlerOrder[1]].resources_to_remove) :
                    relative_yy_directory(HandlerOrder[1], n) \notin DOMAIN disk)
                  => last'.status = "IOFailure"
             /\ last'.status = "IOFailure"
                  => \A T \in Resource :
                        /\ handlers'[T].resources_to_reserialize # <<>>
                             => \A n \in SeqToSet(handlers[T].resources_to_reserialize) :
                                   LET yy_path == FilesystemPath_new(T, n).path IN
                                   yy_path \in DOMAIN disk'
                                     => /\ yy_path \in DOMAIN disk
                                        /\ disk'[yy_path] = disk[yy_path]
                        /\ Entered(T, "resources_to_reserialize")
                             => \A n \in SeqToSet(handlers[T].resources_to_reserialize) :
                                   LET yy_path == FilesystemPath_new(T, n).path IN
                                   /\ yy_path \in DOMAIN disk'
                                   /\ disk'[yy_path]
                                         = YyEntry(handlers[T].resources[n].yy_resource)
                        /\ (/\ Entered(T, "associated_folders_to_cleanup")
                            /\ handlers'[T].resources_to_reserialize # <<>>)
                             => \A n \in SeqToSet(handlers[T].resources_to_remove) :
                                   relative_yy_directory(T, n) \notin DOMAIN disk']_vars

\* A flush has failed in the second handler after the first had written
\* its resource: the definition the first wrote is on disk.
C21_Witness ==
    /\ last.op = "flush"
    /\ last.status = "IOFailure"
    /\ \E n \in DOMAIN handlers[HandlerOrder[1]].resources :
          /\ FilesystemPath_new(HandlerOrder[1], n).path \in DOMAIN disk
          /\ relative_yy_directory(HandlerOrder[2], n) \notin DOMAIN disk
          /\ handlers[HandlerOrder[1]].resources[n].associated_data # None
          /\ handlers[HandlerOrder[2]].resources_to_reserialize # <<>>

\* C22: right after a flush that answered Ok the four queues of every
\* handler are empty, and another flush would answer Ok and leave the disk
\* and the handlers as they are.
C22_FlushEmptiesQueues ==
    (last.op = "flush" /\ last.status = "Ok")
      => /\ \A T \in Resource :
               /\ handlers[T].resources_to_reserialize = <<>>
               /\ handlers[T].resources_to_remove = <<>>
               /\ handlers[T].associated_files_to_cleanup = <<>>
               /\ handlers[T].associated_folders_to_cleanup = <<>>
         /\ flush_from(handlers, 1, disk)
               = [handlers |-> handlers, disk |-> disk, status |-> "Ok"]

\* A flush has answered Ok after it wrote a resource with its payload and
\* removed the directory of another kind.
C22_Witness ==
    /\ last.op = "flush"
    /\ last.status = "Ok"
    /\ \E T \in Resource : \E n \in DOMAIN handlers[T].resources :
          /\ handlers[T].resources[n].associated_data # None
          /\ FilesystemPath_new(T, n).path \in DOMAIN disk
          /\ disk[FilesystemPath_new(T, n).path].yy
                = handlers[T].resources[n].yy_resource
          /\ handlers[T].resources[n].yy_resource.v = 2

\* ---------------------------------------------------------------------
\* cli/input.rs: the commands and their serde envelope.  A Rust value is
\* a record with its variant and its fields (v0 is the field of a newtype
\* variant); its encoding is a JSON object, a sequence of <<key, value>>
\* pairs in the order serde writes them.

Ok(v) == [ok |-> TRUE, value |-> v]
Err == [ok |-> FALSE]

\* The entries of a JSON object under a key; a field read by serde must be
\* there (missing field) and only once (duplicate field).
entries(obj, k) == {i \in DOMAIN obj : obj[i][1] = k}
has_one(obj, k) == Cardinality(entries(obj, k)) = 1
field(obj, k) == obj[CHOOSE i \in entries(obj, k) : TRUE][2]
without_key(obj, k) ==
    LET other(e) == e[1] # k IN SelectSeq(obj, other)

\* #[serde(tag = ...)] of Command, ResourceCommandType, VfsCommand and Data.
Command_tag == "type"
ResourceCommandType_tag == "subCommand"
\* (mutant: VfsCommand is tagged with the key Command is tagged with.)
VfsCommand_tag_as_type == "type"
VfsCommand_tag == "subCommand"
Data_tag == "dataType"

\* Resource: the thirteen kinds, written as their names.
ResourceVariants ==
    {"Sprite", "Script", "Object", "Note", "Shader", "AnimationCurve",
     "Extension", "Font", "Path", "Sequence", "Sound", "TileSet", "Timeline"}

\* Data and its encoding.
DataValues ==
    {[variant |-> "Value", data |-> d] : d \in {"Hello", "dataType"}}
      \cup {[variant |-> "Filepath", data |-> "woah_a_path"]}
      \cup {[variant |-> "DefaultValue"]}

serialize_Data(d) ==
    IF d.variant = "DefaultValue"
    THEN << <<Data_tag, d.variant>> >>
    ELSE << <<Data_tag, d.variant>>, <<"data", d.data>> >>

deserialize_Data(obj) ==
    IF ~has_one(obj, Data_tag) THEN Err
    ELSE LET tag == field(obj, Data_tag)
             rest == without_key(obj, Data_tag)
         IN IF tag = "DefaultValue" THEN Ok([variant |-> tag])
            ELSE IF tag \in {"Value", "Filepath"} /\ has_one(rest, "data")
            THEN Ok([variant |-> tag, data |-> field(rest, "data")])
            ELSE Err

\* HashMap<String, Data>: written in the order the map iterates, read back
\* entry by entry, a later entry replacing an earlier one of the same key.
AssociatedKeys == {"test", "type"}
Orders(S) ==
    {o \in [1 .. Cardinality(S) -> S] :
        \A i, j \in 1 .. Cardinality(S) : o[i] = o[j] => i = j}

serialize_HashMap(m, order) ==
    [i \in 1 .. Len(order) |-> <<order[i], serialize_Data(m[order[i]])>>]

deserialize_HashMap(obj) ==
    LET keys == {obj[i][1] : i \in DOMAIN obj}
        lastOf(k) == obj[CHOOSE i \in entries(obj, k) :
                            \A j \in entries(obj, k) : j <= i][2]
    IN IF \A i \in DOMAIN obj : deserialize_Data(obj[i][2]).ok
       THEN Ok([k \in keys |-> deserialize_Data(lastOf(k)).value])
       ELSE Err

\* NewResource.
NewResources ==
    {[new_resource |-> d, associated_data |-> m] :
        d \in DataValues,
        m \in UNION {[S -> DataValues] : S \in SUBSET AssociatedKeys}}

serialize_NewResource(nr, order) ==
    << <<"new_resource", serialize_Data(nr.new_resource)>>,
       <<"associated_data", serialize_HashMap(nr.associated_data, order)>> >>

deserialize_NewResource(obj) ==
    IF ~(has_one(obj, "new_resource") /\ has_one(obj, "associated_data"))
    THEN Err
    ELSE LET d == deserialize_Data(field(obj, "new_resource"))
             m == deserialize_HashMap(field(obj, "associated_data"))
         IN IF d.ok /\ m.ok
            THEN Ok([new_resource |-> d.value, associated_data |-> m.value])
            ELSE Err

\* ResourceCommandType: Add, Replace and Set carry a NewResource, Remove,
\* Get and Exists an identifier.
Identifiers == {"Something", "resource"}
ResourceCommandTypes ==
    {[variant |-> t, v0 |-> nr] :
        t \in {"Add", "Replace", "Set"}, nr \in NewResources}
      \cup {[variant |-> t, identifier |-> n] :
              t \in {"Remove", "Get", "Exists"}, n \in Identifiers}

serialize_ResourceCommandType(ct, order) ==
    IF ct.variant \in {"Add", "Replace", "Set"}
    THEN << <<ResourceCommandType_tag, ct.variant>> >>
            \o serialize_NewResource(ct.v0, order)
    ELSE << <<ResourceCommandType_tag, ct.variant>>,
            <<"identifier", ct.identifier>> >>

deserialize_ResourceCommandType(obj) ==
    IF ~has_one(obj, ResourceCommandType_tag) THEN Err
    ELSE LET tag == field(obj, ResourceCommandType_tag)
             rest == without_key(obj, ResourceCommandType_tag)
         IN IF tag \in {"Add", "Replace", "Set"}
            THEN LET nr == deserialize_NewResource(rest)
                 IN IF nr.ok THEN Ok([variant |-> tag, v0 |-> nr.value])
                    ELSE Err
            ELSE IF tag \in {"Remove", "Get", "Exists"}
                     /\ has_one(rest, "identifier")
            THEN Ok([variant |-> tag,
                     identifier |-> field(rest, "identifier")])
            ELSE Err

\* ResourceCommand: the command type flattened into the object, then the
\* resource.
ResourceCommands ==
    {[command_type |-> ct, resource |-> r] :
        ct \in ResourceCommandTypes, r \in ResourceVariants}

serialize_ResourceCommand(rc, order) ==
    serialize_ResourceCommandType(rc.command_type, order)
       \o << <<"resource", rc.resource>> >>

deserialize_ResourceCommand(obj) ==
    IF ~has_one(obj, "resource") THEN Err
    ELSE LET ct == deserialize_ResourceCommandType(without_key(obj, "resource"))
         IN IF ct.ok /\ field(obj, "resource") \in ResourceVariants
            THEN Ok([command_type |-> ct.value,
                     resource |-> field(obj, "resource")])
            ELSE Err

\* ViewPath: a name and a path.
ViewPaths ==
    {[name |-> "", path |-> ""],
     [name |-> "Enemies", path |-> "folders/Enemies.yy"]}

serialize_ViewPath(vp) == << <<"name", vp.name>>, <<"path", vp.path>> >>

deserialize_ViewPath(obj) ==
    IF has_one(obj, "name") /\ has_one(obj, "path")
    THEN Ok([name |-> field(obj, "name"), path |-> field(obj, "path")])
    ELSE Err

\* VfsCommand.
VfsCommands ==
    {[variant |-> "MoveItem", start |-> s, end |-> e] :
        s \in ViewPaths, e \in ViewPaths}
      \cup {[variant |-> "DeleteFolder", recursive |-> r] : r \in BOOLEAN}
      \cup {[variant |-> t, v0 |-> vp] :
              t \in {"GetFolder", "GetPathType"}, vp \in ViewPaths}
      \cup {[variant |-> "GetFullVfs"]}

serialize_VfsCommand(v) ==
    << <<VfsCommand_tag, v.variant>> >>
       \o CASE v.variant = "MoveItem"
                 -> << <<"start", serialize_ViewPath(v.start)>>,
                       <<"end", serialize_ViewPath(v.end)>> >>
            [] v.variant = "DeleteFolder"
                 -> << <<"recursive", v.recursive>> >>
            [] v.variant \in {"GetFolder", "GetPathType"}
                 -> serialize_ViewPath(v.v0)
            [] OTHER -> <<>>

deserialize_VfsCommand(obj) ==
    IF ~has_one(obj, VfsCommand_tag) THEN Err
    ELSE LET tag == field(obj, VfsCommand_tag)
             rest == without_key(obj, VfsCommand_tag)
         IN CASE tag = "MoveItem"
                   -> IF ~(has_one(rest, "start") /\ has_one(rest, "end"))
                      THEN Err
                      ELSE LET s == deserialize_ViewPath(field(rest, "start"))
                               e == deserialize_ViewPath(field(rest, "end"))
                           IN IF s.ok /\ e.ok
                              THEN Ok([variant |-> tag, start |-> s.value,
                                       end |-> e.value])
                              ELSE Err
              [] tag = "DeleteFolder"
                   -> IF has_one(rest, "recursive")
                      THEN Ok([variant |-> tag,
                               recursive |-> field(rest, "recursive")])
                      ELSE Err
              [] tag \in {"GetFolder", "GetPathType"}
                   -> LET vp == deserialize_ViewPath(rest)
                      IN IF vp.ok THEN Ok([variant |-> tag, v0 |-> vp.value])
                         ELSE Err
              [] tag = "GetFullVfs" -> Ok([variant |-> tag])
              [] OTHER -> Err

\* Command.
Commands ==
    {[variant |-> "Resource", v0 |-> rc] : rc \in ResourceCommands}
      \cup {[variant |-> "VirtualFileSystem", v0 |-> v] : v \in VfsCommands}

serialize_Command(c, order) ==
    << <<Command_tag, c.variant>> >>
       \o IF c.variant = "Resource"
          THEN serialize_ResourceCommand(c.v0, order)
          ELSE serialize_VfsCommand(c.v0)

deserialize_Command(obj) ==
    IF ~has_one(obj, Command_tag) THEN Err
    ELSE LET tag == field(obj, Command_tag)
             rest == without_key(obj, Command_tag)
             r == CASE tag = "Resource" -> deserialize_ResourceCommand(rest)
                    [] tag = "VirtualFileSystem" -> deserialize_VfsCommand(rest)
                    [] OTHER -> Err
         IN IF r.ok THEN Ok([variant |-> tag, v0 |-> r.value]) ELSE Err

\* The keys of the map a command carries.
associated_keys(c) ==
    IF c.variant = "Resource"
         /\ c.v0.command_type.variant \in {"Add", "Replace", "Set"}
    THEN DOMAIN c.v0.command_type.v0.associated_data
    ELSE {}

\* tests::test, harness: a command is written to a string and the string
\* is read back; either unwrap aborts the harness.
InitHarness ==
    /\ phase = "Command"
    /\ vfs = (root_path :> Folder_new)
    /\ resource_names = <<>>
    /\ handlers = [T \in Resource |-> YyResourceHandler_new]
    /\ disk = <<>>
    /\ \E c \in Commands :
          last = [op |-> "harness", command |-> c,
                  command_str |-> None, new_command |-> None]

to_string_pretty ==
    /\ phase = "Command"
    /\ \E order \in Orders(associated_keys(last.command)) :
          last' = [last EXCEPT
                     !.command_str = Some(serialize_Command(last.command, order))]
    /\ phase' = "Encoded"
    /\ UNCHANGED <<vfs, resource_names, handlers, disk>>

from_str ==
    /\ phase = "Encoded"
    /\ LET r == deserialize_Command(last.command_str[1])
       IN IF r.ok
          THEN /\ last' = [last EXCEPT !.new_command = Some(r.value)]
               /\ phase' = "Decoded"
          ELSE /\ last' = last
               /\ phase' = "Aborted"
    /\ UNCHANGED <<vfs, resource_names, handlers, disk>>

NextHarness == to_string_pretty \/ from_str

SpecHarness == InitHarness /\ [][NextHarness]_vars

\* C23: a command that is written and read back is read without error and
\* the command read equals the command written.
C23_CommandRoundTrip ==
    /\ phase # "Aborted"
    /\ phase = "Decoded" => last.new_command = Some(last.command)

\* A Set of a sound with a default definition and a map of two entries,
\* one of them under the key the command is tagged with, has been read
\* back.
C23_Witness ==
    /\ phase = "Decoded"
    /\ last.command.variant = "Resource"
    /\ last.command.v0.resource = "Sound"
    /\ last.command.v0.command_type.variant = "Set"
    /\ last.command.v0.command_type.v0.new_resource.variant = "DefaultValue"
    /\ DOMAIN last.command.v0.command_type.v0.associated_data = AssociatedKeys
    /\ last.command_str[1][Len(last.command_str[1])][1] = "resource"

\* n, flushed to disk as a T, has been replaced and then removed, and
\* nothing else is pending.
ReplacedThenRemoved(T, n) ==
    LET h == handlers[T]
        yy_path == FilesystemPath_new(T, n).path
    IN /\ n \notin DOMAIN h.resources
       /\ h.resources_to_reserialize = <<n>>
       /\ h.resources_to_remove = <<n>>
       /\ yy_path \in DOMAIN disk
       /\ h.associated_files_to_cleanup
             = cleanup_on_replace(T, disk[yy_path].yy).files
       /\ h.associated_folders_to_cleanup
             = cleanup_on_replace(T, disk[yy_path].yy).folders
       /\ \A U \in Resource \ {T} :
             /\ handlers[U].resources_to_reserialize = <<>>
             /\ handlers[U].resources_to_remove = <<>>
             /\ handlers[U].associated_files_to_cleanup = <<>>
             /\ handlers[U].associated_folders_to_cleanup = <<>>

\* C24: the flush that follows the replacement and then the removal of a
\* flushed resource answers Ok and leaves no path of the resource's
\* directory on disk.
C24_ReplaceRemoveFlush ==
    [][\A T \in Resource, n \in Names :
          (last'.op = "flush" /\ ReplacedThenRemoved(T, n) /\ Flush)
            => /\ last'.status = "Ok"
               /\ \A q \in DOMAIN disk' :
                     ~IsPrefix(relative_yy_directory(T, n), q)]_vars

\* C25: every name in a handler's reserialize queue is the key of a
\* resource the handler holds, and no flush has failed on the lookup of a
\* queued name.
C25_QueuedNamesAreHeld ==
    /\ \A T \in Resource :
          SeqToSet(handlers[T].resources_to_reserialize)
             \subseteq DOMAIN handlers[T].resources
    /\ ~(last.op = "flush" /\ last.status = "Panic")

\* The three queues of deletions of a handler, in the order serialize
\* walks them.
DeletionQueues ==
    {"resources_to_remove", "associated_folders_to_cleanup",
     "associated_files_to_cleanup"}

\* C26: when a flush answers IOFailure and has changed nothing on disk
\* while the first handler had deletions queued (so the first deletion it
\* tried failed and no entry was applied), every queue of that handler
\* keeps its entries, but for the one that failed, and the handlers after
\* it keep all of theirs.
C26_FailedFlushKeepsQueues ==
    [][(/\ last'.op = "flush"
        /\ \E q \in DeletionQueues : handlers[HandlerOrder[1]][q] # <<>>
        /\ Flush
        /\ last'.status = "IOFailure"
        /\ disk' = disk)
          => /\ \A q \in DeletionQueues \cup {"resources_to_reserialize"} :
                   Len(handlers'[HandlerOrder[1]][q])
                      >= Len(handlers[HandlerOrder[1]][q]) - 1
             /\ \A i \in 2 .. Len(HandlerOrder) :
                   handlers'[HandlerOrder[i]] = handlers[HandlerOrder[i]]]_vars

\* C27: the parent path recorded for a name is the path of the folder
\* that holds the file of that name.
C27_ParentIsContainingFolder ==
    \A p \in DOMAIN vfs : \A i \in 1 .. Len(vfs[p].files) :
       /\ vfs[p].files[i].name \in DOMAIN resource_names
       /\ resource_names[vfs[p].files[i].name].parent = p

\* C28: the flush that follows the replacement of a flushed resource
\* deletes no path outside the directory of that resource.
C28_CleanupStaysInOwnDirectory ==
    [][\A T \in Resource, n \in CleanupNames :
          (last'.op = "flush" /\ ReplacedOnce(T, n) /\ Flush)
            => \A q \in DOMAIN disk \ DOMAIN disk' :
                  IsPrefix(relative_yy_directory(T, n), q)]_vars

\* C29: load_resource_associated_data of a name the handler does not hold
\* answers ResourceNotFound, and of a resource whose payload file is not
\* on disk answers an error, both leaving the handlers as they were; a
\* load that answers Ok makes the payload on disk the resident payload of
\* the resource, answers it, and changes nothing else.
C29_LoadAssociatedData ==
    [][\A T \in Resource, name \in Names :
          (last'.op = "load_associated" /\ LoadAssociatedData(T, name))
            => LET h == handlers[T]
                   held == name \in DOMAIN h.resources
                   f == relative_yy_directory(T, name)
                           \o assoc_file(T, h.resources[name].yy_resource)
               IN /\ ~held
                       => /\ last'.status = "ResourceNotFound"
                          /\ handlers' = handlers
                  /\ (held /\ f \notin DOMAIN disk)
                       => /\ last'.status # "Ok"
                          /\ handlers' = handlers
                  /\ last'.status = "Ok"
                       => /\ held
                          /\ f \in DOMAIN disk
                          /\ last'.ret = Some(disk[f].data)
                          /\ handlers'
                                = [handlers EXCEPT
                                     ![T].resources[name].associated_data
                                         = Some(disk[f].data)]]_vars

\* The payload of a replaced resource has been loaded again from disk,
\* where the payload of before the replacement still is.
C29_Witness ==
    /\ last.op = "load_associated"
    /\ last.status = "Ok"
    /\ \E T \in Resource, name \in Names :
          /\ name \in DOMAIN handlers[T].resources
          /\ handlers[T].resources[name].yy_resource.v = 2
          /\ handlers[T].resources[name].associated_data = Some(1)
          /\ last.ret = Some(1)
          /\ name \in SeqToSet(handlers[T].resources_to_reserialize)

\* C30: in a Files list each name occurs at most once, and right after
\* Files::remove or Files::detach of a name the list does not contain
\* that name.
C30_FilesHoldEachNameOnce ==
    /\ \A i, j \in 1 .. Len(FilesUnderTest) :
          FilesUnderTest[i].name = FilesUnderTest[j].name => i = j
    /\ last.op \in {"Files::remove", "Files::detach"}
          => ~Files_contains_name(FilesUnderTest, last.ret)

====
